---- MODULE Spec2Model ----
(***************************************************************************)
(* Model of the books dashboard repository.                                *)
(*                                                                         *)
(*   scrape_books.py : the catalogue crawler (page loop, per-book loop,    *)
(*                     batch write of books_data.csv)                      *)
(*   main.py         : load_data (schema resolution and cell cleaning),    *)
(*                     the sidebar filters of main() and calculate_kpis    *)
(*                                                                         *)
(* Text is modelled as a sequence of one-character strings, so that        *)
(* trimming, lower-casing, substring tests and parsing are computed.       *)
(***************************************************************************)
EXTENDS Integers, Sequences, FiniteSets, TLC

VARIABLES
    \* ---- scrape_books.py ----
    pc,        \* position of the script: "page", "book", "write", "done"
    page,      \* the loop variable of `for page in range(1, 51)`
    pending,   \* the book elements of the current page not yet processed
    books,     \* the module-level list `books`
    store,     \* the sequence of contents written to books_data.csv
    events,    \* the requests and sleeps issued so far, in order
    served,    \* what the site answered for each page fetched so far
    \* ---- main.py ----
    dpc,       \* position of the dashboard script
    nullAsText,\* whether Series.astype(str) renders a missing value as "nan"
    raw,       \* the table pd.read_csv returned: [cols, rows]
    mapping,   \* the dict column_mapping of load_data
    df,        \* what load_data returned: None or a frame [rows |-> ...]
    errors,    \* the list shown by st.error "Missing required columns"
    sel,       \* the sidebar selections: [ratings, lo, hi, avail]
    filtered,  \* filtered_df
    kpis       \* the result of calculate_kpis(filtered_df)

crawlVars == <<pc, page, pending, books, store, events, served>>
dashVars  == <<dpc, nullAsText, raw, mapping, df, errors, sel, filtered, kpis>>
vars      == <<pc, page, pending, books, store, events, served,
               dpc, nullAsText, raw, mapping, df, errors, sel, filtered, kpis>>

\* the Python value None
None == [none |-> TRUE]

(***************************************************************************)
(* Bounds of the model.                                                    *)
(***************************************************************************)
\* number of catalogue pages walked (the script walks 50)
PageCount == 2
\* listing entries the site serves over one whole crawl
MaxItems == 3
\* columns of a table handed to load_data
MaxCols == 4
\* rows of a table handed to load_data
MaxRows == 2

(***************************************************************************)
(* Bounded sets of sequences.                                              *)
(***************************************************************************)
RECURSIVE SeqsUpTo(_, _)
SeqsUpTo(S, n) ==
    IF n = 0 THEN {<<>>}
    ELSE LET shorter == SeqsUpTo(S, n - 1)
         IN  shorter \cup {Append(s, x) : s \in {t \in shorter : Len(t) = n - 1}, x \in S}

(***************************************************************************)
(*                        scrape_books.py                                  *)
(***************************************************************************)
\* outcome of one requests.get: a response with a 2xx status, a response
\* with a non-success status, or an exception (connection error, timeout)
FetchOutcomes == {"ok", "status", "transport", "timeout"}

\* requests.get itself raises on a connection error and on a timeout
GetRaises(outcome) == outcome \in {"transport", "timeout"}

\* a response has a body whenever requests.get returned
HasBody(outcome) == ~GetRaises(outcome)

\* page fetch: requests.get followed by response.raise_for_status()
PageFetchNoStatusCheck(outcome) == GetRaises(outcome)
PageFetchRaises(outcome) == GetRaises(outcome) \/ outcome = "status"

\* detail fetch: requests.get alone, the status is never looked at
DetailFetchRaises(outcome) == GetRaises(outcome)

\* a listing entry: whether the field extraction of lines 45-55 succeeds,
\* and what the site answers for its detail page
\* (no detail page is requested for an entry whose extraction failed)
Entries == {[extract |-> "fail", detail |-> "none"]}
               \cup [extract : {"ok"}, detail : FetchOutcomes]

EntriesServed == LET n == Len(served) IN
    IF n = 0 THEN 0 ELSE
    LET RECURSIVE Sum(_)
        Sum(i) == IF i = 0 THEN 0 ELSE Len(served[i].body) + Sum(i - 1)
    IN Sum(n)

\* lines 62-67: category and description read from the detail response;
\* the body of a non-success response has neither breadcrumb nor description
Category(outcome) == IF outcome = "ok" THEN "category" ELSE "Unknown"
Description(outcome) == IF outcome = "ok" THEN "description" ELSE "No description available"

\* lines 69-76: the dict appended to `books`
BookRecord(p, i, entry) ==
    [page |-> p, index |-> i,
     Category |-> Category(entry.detail),
     Description |-> Description(entry.detail)]

\* lines 42-80: whether one iteration of the per-book loop reaches books.append
BookAppended(entry) ==
    /\ entry.extract = "ok"
    /\ ~DetailFetchRaises(entry.detail)

\* the script starts; the dashboard is not running
CrawlInit ==
    /\ pc = "page"
    /\ page = 1
    /\ pending = <<>>
    /\ books = <<>>
    /\ store = <<>>
    /\ events = <<>>
    /\ served = <<>>
    /\ dpc = "off"
    /\ nullAsText = TRUE
    /\ raw = None
    /\ mapping = [c \in {} |-> c]
    /\ df = None
    /\ errors = <<>>
    /\ sel = None
    /\ filtered = None
    /\ kpis = None

\* lines 31-40 and 85-87: the fetch of one listing page
FetchPage ==
    /\ pc = "page"
    /\ page <= PageCount
    /\ \E outcome \in FetchOutcomes :
       \E body \in SeqsUpTo(Entries, MaxItems - EntriesServed) :
          /\ (~HasBody(outcome)) => body = <<>>
          /\ served' = Append(served, [page |-> page, outcome |-> outcome, body |-> body])
          /\ events' = Append(events, [kind |-> "get", page |-> page])
          /\ IF PageFetchRaises(outcome)
             THEN \* except Exception: print; continue
                  /\ page' = page + 1
                  /\ pc' = "page"
                  /\ pending' = <<>>
             ELSE /\ page' = page
                  /\ pc' = "book"
                  /\ pending' = [i \in 1..Len(body) |-> [index |-> i, entry |-> body[i]]]
    /\ UNCHANGED <<books, store>>

\* lines 42-80: one iteration of `for book in book_elements`
ProcessBook ==
    /\ pc = "book"
    /\ pending # <<>>
    /\ LET b == Head(pending) IN
       /\ events' = IF b.entry.extract = "ok"
                    THEN Append(events, [kind |-> "detail", page |-> page])
                    ELSE events
       /\ books' = IF BookAppended(b.entry)
                   THEN Append(books, BookRecord(page, b.index, b.entry))
                   ELSE books
    /\ pending' = Tail(pending)
    /\ UNCHANGED <<pc, page, store, served>>

\* (a flush of the records at the end of every page)
EndPageFlush ==
    /\ pc = "book"
    /\ pending = <<>>
    /\ events' = Append(events, [kind |-> "sleep", page |-> page])
    /\ store' = Append(store, books)
    /\ page' = page + 1
    /\ pc' = "page"
    /\ UNCHANGED <<pending, books, served>>

\* lines 82-83: the book loop is over, time.sleep(1), next page
EndPage ==
    /\ pc = "book"
    /\ pending = <<>>
    /\ events' = Append(events, [kind |-> "sleep", page |-> page])
    /\ page' = page + 1
    /\ pc' = "page"
    /\ UNCHANGED <<pending, books, store, served>>

\* range(1, 51) is exhausted
LoopExit ==
    /\ pc = "page"
    /\ page > PageCount
    /\ pc' = "write"
    /\ UNCHANGED <<page, pending, books, store, events, served>>

\* lines 89-93: df = pd.DataFrame(books); df.to_csv(...)
WriteCsv ==
    /\ pc = "write"
    /\ store' = Append(store, books)
    /\ pc' = "done"
    /\ UNCHANGED <<page, pending, books, events, served>>

CrawlNext ==
    \/ FetchPage /\ UNCHANGED dashVars
    \/ ProcessBook /\ UNCHANGED dashVars
    \/ EndPage /\ UNCHANGED dashVars
    \/ LoopExit /\ UNCHANGED dashVars
    \/ WriteCsv /\ UNCHANGED dashVars

SpecCrawl == CrawlInit /\ [][CrawlNext]_vars

(***************************************************************************)
(* Properties of the crawler.                                              *)
(***************************************************************************)
\* the page indices requested so far, in request order
PageGets == LET g == SelectSeq(events, LAMBDA e : e.kind = "get")
            IN  [i \in 1..Len(g) |-> g[i].page]

\* how many entries of fetched page p the book loop has gone through
Processed(p) ==
    IF PageFetchRaises(served[p].outcome) THEN 0
    ELSE IF p = page /\ pc = "book" THEN Len(served[p].body) - Len(pending)
    ELSE Len(served[p].body)

\* the indices, in listing order, of the records of page p held in `books`
IndicesOf(p) == LET r == SelectSeq(books, LAMBDA b : b.page = p)
                IN  [i \in 1..Len(r) |-> r[i].index]

\* an entry whose extraction and detail fetch both succeed
ValidEntry(e) == e.extract = "ok" /\ e.detail = "ok"

\* the indices i <= n, in increasing order, of the valid entries of body
RECURSIVE ValidIndices(_, _)
ValidIndices(body, n) ==
    IF n = 0 THEN <<>>
    ELSE IF ValidEntry(body[n]) THEN Append(ValidIndices(body, n - 1), n)
    ELSE ValidIndices(body, n - 1)

\* C1: the crawl never aborts: the pages 1..PageCount are each fetched once, in
\* increasing order, whatever the fetches answer; a page whose fetch failed
\* contributes no record; every valid entry of a successfully fetched page
\* contributes exactly one record, whatever happened on the other pages
\* (3 valid entries on page 1 and a timeout on page 2 give exactly 3 records).
C1_CrawlNeverAborts ==
    /\ PageGets = [i \in 1..Len(served) |-> i]
    /\ Len(served) = (IF pc = "page" THEN page - 1 ELSE IF pc = "book" THEN page ELSE PageCount)
    /\ pc \in {"write", "done"} => Len(served) = PageCount
    /\ \A i \in 1..Len(books) : served[books[i].page].outcome = "ok"
    /\ \A p \in 1..Len(served) :
          served[p].outcome = "ok" =>
             \A i \in 1..Processed(p) :
                ValidEntry(served[p].body[i]) =>
                   Cardinality({k \in 1..Len(books) :
                                   books[k].page = p /\ books[k].index = i}) = 1
    /\ (/\ pc = "done"
        /\ PageCount = 2
        /\ served[1].outcome = "ok"
        /\ Len(served[1].body) = 3
        /\ \A i \in 1..3 : ValidEntry(served[1].body[i])
        /\ served[2].outcome = "timeout") => Len(books) = 3

\* C1 witness: page 1 served three valid entries, page 2 timed out, and the
\* crawl ended with exactly the three records of page 1
C1_Witness ==
    /\ pc = "done"
    /\ Len(served) = PageCount
    /\ served[1].outcome = "ok"
    /\ Len(served[1].body) = 3
    /\ \A i \in 1..3 : ValidEntry(served[1].body[i])
    /\ served[2].outcome = "timeout"
    /\ Len(books) = 3

\* C2 (as claimed): on a successfully fetched page an entry yields a record
\* exactly when its extraction succeeded and its detail fetch did not fail
\* (transport failure, timeout or non-success status); the records of the page
\* are those entries, in listing order.
C2_FailedItemsSkipped ==
    \A p \in 1..Len(served) :
       served[p].outcome = "ok" =>
          IndicesOf(p) = ValidIndices(served[p].body, Processed(p))

\* C3: books_data.csv is written exactly once, after the last page index was
\* processed, with the whole of `books` (which is in production order); nothing
\* is written while a page remains, and the write happens whatever failed.
C3_SingleBatchWrite ==
    /\ Len(store) <= 1
    /\ store # <<>> =>
          /\ pc = "done"
          /\ page > PageCount
          /\ Len(served) = PageCount
          /\ pending = <<>>
          /\ store[1] = books
    /\ pc = "done" => Len(store) = 1
    /\ \A i, j \in 1..Len(books) :
          i < j => \/ books[i].page < books[j].page
                   \/ books[i].page = books[j].page /\ books[i].index < books[j].index

\* C3 witness: a crawl with a failed page and a skipped entry ended with its
\* records written in one batch
C3_Witness ==
    /\ pc = "done"
    /\ store = <<books>>
    /\ books # <<>>
    /\ \E p \in 1..Len(served) : PageFetchRaises(served[p].outcome)
    /\ \E p \in 1..Len(served) : \E i \in 1..Len(served[p].body) :
          served[p].outcome = "ok" /\ ~ValidEntry(served[p].body[i])

\* C10 (as claimed): between the fetches of two consecutive page indices the
\* delay is applied exactly once, whatever the outcome of the first fetch.
C10_DelayAfterEveryPageFetch ==
    \A i, j \in 1..Len(events) :
       (/\ i < j
        /\ events[i].kind = "get"
        /\ events[j].kind = "get"
        /\ \A k \in (i + 1)..(j - 1) : events[k].kind # "get")
       => Cardinality({k \in (i + 1)..(j - 1) : events[k].kind = "sleep"}) = 1

(***************************************************************************)
(*                     Text (sequences of characters)                      *)
(***************************************************************************)
Digits == <<"0", "1", "2", "3", "4", "5", "6", "7", "8", "9">>
UpperCase == <<"A", "B", "C", "D", "E", "F", "G", "H", "I", "J", "K", "L", "M", "N", "O", "P", "Q", "R", "S", "T", "U", "V", "W", "X", "Y", "Z">>
LowerCase == <<"a", "b", "c", "d", "e", "f", "g", "h", "i", "j", "k", "l", "m", "n", "o", "p", "q", "r", "s", "t", "u", "v", "w", "x", "y", "z">>

IsDigit(c) == \E i \in 1..Len(Digits) : Digits[i] = c
DigitVal(c) == (CHOOSE i \in 1..Len(Digits) : Digits[i] = c) - 1

\* str.lower()
LowerChar(c) ==
    IF \E i \in 1..Len(UpperCase) : UpperCase[i] = c
    THEN LowerCase[CHOOSE i \in 1..Len(UpperCase) : UpperCase[i] = c]
    ELSE c
Lower(s) == [i \in 1..Len(s) |-> LowerChar(s[i])]

Min(S) == CHOOSE x \in S : \A y \in S : x <= y
Max(S) == CHOOSE x \in S : \A y \in S : y <= x

\* str.strip(): leading and trailing blanks removed
Strip(s) ==
    LET solid == {i \in 1..Len(s) : s[i] # " "}
    IN  IF solid = {} THEN <<>> ELSE SubSeq(s, Min(solid), Max(solid))

\* `sub in s`
Contains(s, sub) ==
    \E i \in 0..(Len(s) - Len(sub)) : SubSeq(s, i + 1, i + Len(sub)) = sub

\* re.sub of a character class by ''
RemoveChars(s, class) == SelectSeq(s, LAMBDA c : c \notin class)

\* str.replace(sub, ''): every occurrence, scanning from the left
RECURSIVE RemoveAll(_, _)
RemoveAll(s, sub) ==
    IF Len(s) < Len(sub) THEN s
    ELSE IF SubSeq(s, 1, Len(sub)) = sub THEN RemoveAll(SubSeq(s, Len(sub) + 1, Len(s)), sub)
    ELSE <<Head(s)>> \o RemoveAll(Tail(s), sub)

\* the value of a string of digits
RECURSIVE IntVal(_)
IntVal(ds) ==
    IF ds = <<>> THEN 0
    ELSE IntVal(SubSeq(ds, 1, Len(ds) - 1)) * 10 + DigitVal(ds[Len(ds)])

\* a missing cell of a text column (NaN or None in pandas)
Null == <<"<NA>">>
\* a float is kept as an exact quotient; NaN is the quotient 0/0
NaN == [num |-> 0, den |-> 0]
Num(n) == [num |-> n, den |-> 1]

(***************************************************************************)
(*                          main.py : load_data                            *)
(***************************************************************************)
\* the canonical column names, line 92
TitleCol == <<"T", "i", "t", "l", "e">>
PriceCol == <<"P", "r", "i", "c", "e">>
RatingCol == <<"R", "a", "t", "i", "n", "g">>
AvailabilityCol == <<"A", "v", "a", "i", "l", "a", "b", "i", "l", "i", "t", "y">>
required_cols == <<TitleCol, PriceCol, RatingCol, AvailabilityCol>>

EmptyDict == [c \in {} |-> c]
Values(dict) == {dict[k] : k \in DOMAIN dict}
\* dict[key] = value
Put(dict, key, value) ==
    [k \in DOMAIN dict \cup {key} |-> IF k = key THEN value ELSE dict[k]]

\* line 78: df.columns.str.strip()
StripColumns(cols) == [i \in 1..Len(cols) |-> Strip(cols[i])]

\* lines 81-89: the if/elif chain for one column
MapColumn(dict, col) ==
    LET col_lower == Lower(col) IN
    IF Contains(col_lower, <<"t", "i", "t", "l", "e">>) /\ TitleCol \notin Values(dict)
    THEN Put(dict, col, TitleCol)
    ELSE IF Contains(col_lower, <<"p", "r", "i", "c", "e">>) /\ PriceCol \notin Values(dict)
    THEN Put(dict, col, PriceCol)
    ELSE IF Contains(col_lower, <<"r", "a", "t", "i", "n", "g">>) /\ RatingCol \notin Values(dict)
    THEN Put(dict, col, RatingCol)
    ELSE IF (Contains(col_lower, <<"a", "v", "a", "i", "l", "a", "b", "i", "l", "i", "t", "y">>) \/ Contains(col_lower, <<"a", "v", "a", "i", "l">>))
            /\ AvailabilityCol \notin Values(dict)
    THEN Put(dict, col, AvailabilityCol)
    ELSE dict

\* lines 79-89: the loop over df.columns
RECURSIVE ColumnMapping(_, _)
ColumnMapping(cols, n) ==
    IF n = 0 THEN EmptyDict ELSE MapColumn(ColumnMapping(cols, n - 1), cols[n])

\* line 90: df.rename(columns=column_mapping)
Rename(cols, dict) ==
    [i \in 1..Len(cols) |-> IF cols[i] \in DOMAIN dict THEN dict[cols[i]] ELSE cols[i]]

\* line 91: the positions kept by df.loc[:, ~df.columns.duplicated()]
KeptPositions(cols) == {i \in 1..Len(cols) : \A j \in 1..(i - 1) : cols[j] # cols[i]}

\* the columns of the frame after lines 78-91, each with its position in the input
FinalColumns(cols) ==
    LET renamed == Rename(StripColumns(cols), ColumnMapping(StripColumns(cols), Len(cols)))
    IN  [names |-> renamed, kept |-> KeptPositions(renamed)]

\* line 93: missing_cols
MissingCols(cols) ==
    LET final == FinalColumns(cols)
        present == {final.names[i] : i \in final.kept}
    IN  SelectSeq(required_cols, LAMBDA c : c \notin present)

\* df[name]: the position in the input of the column called name, final
\* being the columns of the frame
PositionIn(final, name) == Min({i \in final.kept : final.names[i] = name})
ColumnAt(cols, name) == PositionIn(FinalColumns(cols), name)

\* Series.astype(str): a missing value becomes the text "nan", or stays
\* missing, depending on the pandas release
AsTypeStr(x, asText) == IF x = Null THEN (IF asText THEN <<"n", "a", "n">> ELSE Null) ELSE x

\* pd.to_numeric(errors='coerce') of a text; decimal numbers of at most two
\* decimals are within the model, anything else is NaN
ToNumeric(s) ==
    LET signed == s # <<>> /\ s[1] \in {"-", "+"}
        body == IF signed THEN Tail(s) ELSE s
        dots == {i \in 1..Len(body) : body[i] = "."}
        dot == IF dots = {} THEN Len(body) + 1 ELSE Min(dots)
        whole == SubSeq(body, 1, dot - 1)
        frac == SubSeq(body, dot + 1, Len(body))
        cents == IF Len(frac) = 0 THEN 0
                 ELSE IF Len(frac) = 1 THEN DigitVal(frac[1]) * 10
                 ELSE IntVal(frac)
        ok == /\ Cardinality(dots) <= 1
              /\ \A i \in 1..Len(body) : IsDigit(body[i]) \/ body[i] = "."
              /\ Len(whole) + Len(frac) > 0
              /\ Len(frac) <= 2
        magnitude == IntVal(whole) * 100 + cents
    IN  IF ~ok THEN NaN
        ELSE IF signed /\ s[1] = "-" THEN [num |-> 0 - magnitude, den |-> 100]
        ELSE [num |-> magnitude, den |-> 100]

\* lines 98-99: the Price cell
CleanPrice(x, asText) ==
    LET s0 == AsTypeStr(x, asText) IN
    IF s0 = Null THEN NaN
    ELSE ToNumeric(Strip(RemoveAll(RemoveChars(s0, {"£", ",", "$"}), <<"N", "/", "A">>)))

word_to_num == <<<<"o", "n", "e">>, <<"t", "w", "o">>, <<"t", "h", "r", "e", "e">>, <<"f", "o", "u", "r">>, <<"f", "i", "v", "e">>>>

\* lines 100-106: clean_rating
clean_rating(x) ==
    IF x = Null THEN NaN
    ELSE LET s == Strip(x) IN
         IF s # <<>> /\ \A i \in 1..Len(s) : IsDigit(s[i]) THEN Num(IntVal(s))
         ELSE IF \E k \in 1..Len(word_to_num) : word_to_num[k] = Lower(s)
         THEN Num(CHOOSE k \in 1..Len(word_to_num) : word_to_num[k] = Lower(s))
         ELSE NaN

\* line 108: the Availability cell
CleanAvailability(x, asText) ==
    LET s0 == AsTypeStr(x, asText) IN IF s0 = Null THEN Null ELSE Strip(s0)

\* lines 98-108: one row with its four canonical cells cleaned; t, p, r, a
\* are the positions of the columns df['Title'], df['Price'], df['Rating']
\* and df['Availability']
CleanRow(row, t, p, r, a, asText) ==
    [Title |-> row[t],
     Price |-> CleanPrice(row[p], asText),
     Rating |-> clean_rating(row[r]),
     Availability |-> CleanAvailability(row[a], asText)]

\* line 109: the rows dropna keeps
HasNoNa(r) ==
    /\ r.Title # Null
    /\ r.Price # NaN
    /\ r.Rating # NaN
    /\ r.Availability # Null

\* line 110: reset_index(drop=True)
ResetIndex(rows) ==
    [i \in 1..Len(rows) |->
        [index |-> i - 1, Title |-> rows[i].Title, Price |-> rows[i].Price,
         Rating |-> rows[i].Rating, Availability |-> rows[i].Availability]]

\* lines 98-111, reached when no required column is missing
CleanFrame(table, asText) ==
    LET final == FinalColumns(table.cols)
        t == PositionIn(final, TitleCol)
        p == PositionIn(final, PriceCol)
        r == PositionIn(final, RatingCol)
        a == PositionIn(final, AvailabilityCol)
        cleaned == [i \in 1..Len(table.rows) |-> CleanRow(table.rows[i], t, p, r, a, asText)]
    IN  ResetIndex(SelectSeq(cleaned, HasNoNa))

(***************************************************************************)
(*                 main.py : the sidebar filters and the KPIs              *)
(***************************************************************************)
\* comparisons of floats: any comparison with NaN is false
Le(a, b) == a # NaN /\ b # NaN /\ a.num * b.den <= b.num * a.den
Lt(a, b) == a # NaN /\ b # NaN /\ a.num * b.den < b.num * a.den
Ge(a, b) == Le(b, a)

\* line 232 and line 246: the options of the two multiselects
rating_options(frame) == {frame[i].Rating : i \in 1..Len(frame)}
avail_options(frame) == {frame[i].Availability : i \in 1..Len(frame)}
Prices(frame) == {frame[i].Price : i \in 1..Len(frame)}
\* line 238: df['Price'].min() and .max(), NaN on an empty frame
min_price(frame) ==
    IF frame = <<>> THEN NaN
    ELSE CHOOSE x \in Prices(frame) : \A y \in Prices(frame) : Le(x, y)
max_price(frame) ==
    IF frame = <<>> THEN NaN
    ELSE CHOOSE x \in Prices(frame) : \A y \in Prices(frame) : Le(y, x)

\* lines 233-251: what the widgets return on the first run of the script
DefaultSelection(frame) ==
    [ratings |-> rating_options(frame),
     lo |-> min_price(frame), hi |-> max_price(frame),
     avail |-> avail_options(frame)]

\* lines 233-251: what the widgets can return; the slider positions are
\* taken among the prices of the frame
Selections(frame) ==
    {s \in [ratings : SUBSET rating_options(frame),
            lo : Prices(frame) \cup {min_price(frame)},
            hi : Prices(frame) \cup {max_price(frame)},
            avail : SUBSET avail_options(frame)] :
        frame # <<>> => Le(s.lo, s.hi)}

\* (an upper price bound that excludes the bound itself)
FilterRowsExclusive(frame, s) ==
    SelectSeq(frame, LAMBDA r :
        /\ r.Rating \in s.ratings
        /\ Ge(r.Price, s.lo)
        /\ Lt(r.Price, s.hi)
        /\ r.Availability \in s.avail)

\* lines 252-257: filtered_df
FilterRows(frame, s) ==
    SelectSeq(frame, LAMBDA r :
        /\ r.Rating \in s.ratings
        /\ Ge(r.Price, s.lo)
        /\ Le(r.Price, s.hi)
        /\ r.Availability \in s.avail)

\* line 119: str.contains('In stock', case=False, na=False)
InStockMask(a) == a # Null /\ Contains(Lower(a), Lower(<<"I", "n", " ", "s", "t", "o", "c", "k">>))

RECURSIVE SumOf(_, _)
SumOf(frame, field) ==
    IF frame = <<>> THEN 0 ELSE frame[1][field].num + SumOf(Tail(frame), field)

\* Series.mean(): the exact quotient, NaN on an empty frame
Mean(frame, field) ==
    IF frame = <<>> THEN NaN
    ELSE [num |-> SumOf(frame, field), den |-> frame[1][field].den * Len(frame)]

\* (the rate computed without the guard on total_books: a division by zero)
calculate_kpis_unguarded(frame) ==
    LET total == Len(frame)
        in_stock == Len(SelectSeq(frame, LAMBDA r : InStockMask(r.Availability)))
    IN  [avg_price |-> Mean(frame, "Price"),
         avg_rating |-> Mean(frame, "Rating"),
         total_books |-> total,
         in_stock |-> in_stock,
         min_price |-> min_price(frame),
         max_price |-> max_price(frame),
         availability_rate |-> IF total # 0
                               THEN [num |-> in_stock * 100, den |-> total]
                               ELSE [num |-> in_stock * 100, den |-> 0]]

\* lines 114-123: calculate_kpis; a quotient is kept as numerator and denominator
calculate_kpis(frame) ==
    LET total == Len(frame)
        in_stock == Len(SelectSeq(frame, LAMBDA r : InStockMask(r.Availability)))
    IN  [avg_price |-> Mean(frame, "Price"),
         avg_rating |-> Mean(frame, "Rating"),
         total_books |-> total,
         in_stock |-> in_stock,
         min_price |-> min_price(frame),
         max_price |-> max_price(frame),
         availability_rate |-> IF total > 0
                               THEN [num |-> in_stock * 100, den |-> total]
                               ELSE Num(0)]

(***************************************************************************)
(* The tables handed to load_data.                                         *)
(***************************************************************************)
\* column names as read_csv returns them
HeaderNames ==
    {<<"T", "i", "t", "l", "e">>, <<"T", "i", "t", "l", "e", " ", "P", "r", "i", "c", "e">>, <<" ", "T", "i", "t", "l", "e", " ", "P", "r", "i", "c", "e">>, <<"P", "r", "i", "c", "e", " ", "(", "£", ")">>, <<"P", "R", "I", "C", "E">>, <<"R", "a", "t", "i", "n", "g">>,
     <<"A", "v", "a", "i", "l", "a", "b", "i", "l", "i", "t", "y">>, <<"A", "v", "a", "i", "l">>, <<"C", "a", "t", "e", "g", "o", "r", "y">>}

\* read_csv never returns the same column name twice
DistinctSeqs(S, n) ==
    {h \in SeqsUpTo(S, n) : \A i, j \in 1..Len(h) : i # j => h[i] # h[j]}

\* tables that vary in their header: one row, each cell the text "3"
HeaderTables ==
    {[cols |-> h, rows |-> <<[i \in 1..Len(h) |-> <<"3">>]>>] : h \in DistinctSeqs(HeaderNames, MaxCols)}

\* the header the crawler writes (its first four columns)
CrawlerHeader == <<<<"T", "i", "t", "l", "e">>, <<"P", "r", "i", "c", "e", " ", "(", "£", ")">>, <<"R", "a", "t", "i", "n", "g">>, <<"A", "v", "a", "i", "l", "a", "b", "i", "l", "i", "t", "y">>>>

\* rows under that header: two clean rows, and the first of them with one
\* cell replaced
BaseRow == <<<<"A">>, <<"£", "1", "2", ".", "5", "0">>, <<"3">>, <<"I", "n", " ", "s", "t", "o", "c", "k">>>>
OtherRow == <<<<"B">>, <<"$", "7">>, <<"F", "i", "v", "e">>, <<"O", "u", "t", " ", "o", "f", " ", "s", "t", "o", "c", "k">>>>
CellVariants(k) ==
    CASE k = 1 -> {Null}
      [] k = 2 -> {Null, <<"N", "/", "A">>, <<"-", "5">>, <<"1", ",", "2", "5", "0">>, <<"1", "2", ".", "5">>}
      [] k = 3 -> {Null, <<"Z", "e", "r", "o">>, <<"7">>, <<"3", ".", "0">>, <<" ", "t", "h", "r", "e", "e", " ">>}
      [] k = 4 -> {Null, <<" ", " ">>, <<"I", "N", " ", "S", "T", "O", "C", "K">>, <<"S", "o", "l", "d">>}
RowChoices ==
    {BaseRow, OtherRow}
        \cup {[BaseRow EXCEPT ![k] = v] : k \in {1}, v \in CellVariants(1)}
        \cup {[BaseRow EXCEPT ![k] = v] : k \in {2}, v \in CellVariants(2)}
        \cup {[BaseRow EXCEPT ![k] = v] : k \in {3}, v \in CellVariants(3)}
        \cup {[BaseRow EXCEPT ![k] = v] : k \in {4}, v \in CellVariants(4)}

RowTables == {[cols |-> CrawlerHeader, rows |-> r] : r \in SeqsUpTo(RowChoices, MaxRows)}

Tables == HeaderTables \cup RowTables

\* the dashboard starts on a table read from books_data.csv; the crawler is
\* not running
DashInit ==
    /\ dpc = "start"
    /\ nullAsText \in BOOLEAN
    /\ raw \in Tables
    /\ mapping = EmptyDict
    /\ df = None
    /\ errors = <<>>
    /\ sel = None
    /\ filtered = None
    /\ kpis = None
    /\ pc = "off"
    /\ page = 0
    /\ pending = <<>>
    /\ books = <<>>
    /\ store = <<>>
    /\ events = <<>>
    /\ served = <<>>

\* lines 65-111 and 228-230: load_data('books_data.csv') once the file is read
LoadData ==
    /\ dpc = "start"
    /\ mapping' = ColumnMapping(StripColumns(raw.cols), Len(raw.cols))
    /\ errors' = MissingCols(raw.cols)
    /\ IF MissingCols(raw.cols) # <<>>
       THEN \* st.error(...); return None; st.stop()
            /\ df' = None
            /\ dpc' = "stopped"
       ELSE /\ df' = [rows |-> CleanFrame(raw, nullAsText)]
            /\ dpc' = "loaded"
    /\ UNCHANGED <<nullAsText, raw, sel, filtered, kpis>>

\* lines 231-258: one run of the script past load_data: the widgets return
\* their values (the defaults on the first run), the frame is filtered and
\* the KPIs are computed
Render ==
    /\ dpc \in {"loaded", "rerun"}
    /\ \E s \in Selections(df.rows) :
          /\ dpc = "loaded" => s = DefaultSelection(df.rows)
          /\ sel' = s
          /\ filtered' = [rows |-> FilterRows(df.rows, s)]
          /\ kpis' = calculate_kpis(FilterRows(df.rows, s))
    /\ dpc' = "shown"
    /\ UNCHANGED <<nullAsText, raw, mapping, df, errors>>

\* a widget was changed: the script runs again from the top, its locals are
\* gone and load_data answers from the st.cache_data cache (line 64)
Rerun ==
    /\ dpc = "shown"
    /\ dpc' = "rerun"
    /\ sel' = None
    /\ filtered' = None
    /\ kpis' = None
    /\ UNCHANGED <<nullAsText, raw, mapping, df, errors>>

DashNext ==
    \/ LoadData /\ UNCHANGED crawlVars
    \/ Render /\ UNCHANGED crawlVars
    \/ Rerun /\ UNCHANGED crawlVars

SpecDash == DashInit /\ [][DashNext]_vars

(***************************************************************************)
(* Properties of load_data.                                                *)
(***************************************************************************)
NoField == <<>>

\* the canonical field of the first predicate a (stripped) column name
\* matches, in the order Title, Price, Rating, Availability
Decider(col) ==
    LET low == Lower(col) IN
    IF Contains(low, <<"t", "i", "t", "l", "e">>) THEN TitleCol
    ELSE IF Contains(low, <<"p", "r", "i", "c", "e">>) THEN PriceCol
    ELSE IF Contains(low, <<"r", "a", "t", "i", "n", "g">>) THEN RatingCol
    ELSE IF Contains(low, <<"a", "v", "a", "i", "l", "a", "b", "i", "l", "i", "t", "y">>) \/ Contains(low, <<"a", "v", "a", "i", "l">>) THEN AvailabilityCol
    ELSE NoField

\* the mapping in which every field goes to the first column it decides
FirstMatchMapping(cols) ==
    LET firsts == {i \in 1..Len(cols) :
                      /\ Decider(cols[i]) # NoField
                      /\ \A j \in 1..(i - 1) : Decider(cols[j]) # Decider(cols[i])}
    IN  [c \in {cols[i] : i \in firsts} |-> Decider(c)]

\* C4 (as claimed): the destination of a column is decided by the first
\* predicate it matches; each field goes to the first column, in input order,
\* that this predicate decides for it, and a later column matching an
\* assigned field is mapped to no field at all.
C4_FirstPredicateDecides ==
    dpc # "start" => mapping = FirstMatchMapping(StripColumns(raw.cols))

\* C5 (as claimed): every row of the frame load_data returns has a non-empty
\* Title, a Price >= 0, a Rating among 1..5 and a non-empty Availability.
C5_CanonicalRows ==
    dpc \in {"loaded", "shown", "rerun"} =>
       \A i \in 1..Len(df.rows) :
          LET r == df.rows[i] IN
          /\ r.Title # Null /\ r.Title # <<>>
          /\ r.Price # NaN /\ r.Price.num >= 0
          /\ r.Rating \in {Num(n) : n \in 1..5}
          /\ r.Availability # Null /\ r.Availability # <<>>

\* the input rows the inclusion rule retains: Title present, Price and Rating
\* parsed validly, Availability present
RuleKeeps(cols, row, asText) ==
    /\ row[ColumnAt(cols, TitleCol)] # Null
    /\ CleanPrice(row[ColumnAt(cols, PriceCol)], asText) # NaN
    /\ clean_rating(row[ColumnAt(cols, RatingCol)]) # NaN
    /\ row[ColumnAt(cols, AvailabilityCol)] # Null

\* C6 (as claimed): when schema resolution succeeds, the frame is exactly the
\* input rows with Title present, Price parsed validly, Rating parsed validly
\* and Availability non-null, in input order, reindexed from 0.
C6_RetainedRows ==
    dpc \in {"loaded", "shown", "rerun"} =>
       LET kept == SelectSeq(raw.rows, LAMBDA row : RuleKeeps(raw.cols, row, nullAsText))
       IN  /\ Len(df.rows) = Len(kept)
           /\ \A i \in 1..Len(kept) :
                 /\ df.rows[i].index = i - 1
                 /\ df.rows[i].Title = kept[i][ColumnAt(raw.cols, TitleCol)]
                 /\ df.rows[i].Price = CleanPrice(kept[i][ColumnAt(raw.cols, PriceCol)], nullAsText)
                 /\ df.rows[i].Rating = clean_rating(kept[i][ColumnAt(raw.cols, RatingCol)])
                 /\ df.rows[i].Availability = Strip(kept[i][ColumnAt(raw.cols, AvailabilityCol)])

\* the canonical fields no column was assigned to, in the order of required_cols
Unassigned == SelectSeq(required_cols, LAMBDA f : f \notin Values(mapping))

\* a header holding exactly one column per canonical field (by first
\* matching predicate), other columns matching nothing
OneSynonymEach(cols) ==
    \A k \in 1..Len(required_cols) :
       Cardinality({i \in 1..Len(cols) : Decider(Strip(cols[i])) = required_cols[k]}) = 1

Without(cols, i) == SubSeq(cols, 1, i - 1) \o SubSeq(cols, i + 1, Len(cols))

\* C7: load_data fails exactly when a canonical field has no assigned column
\* after the loop over the columns; it then reports every unassigned field and
\* returns None; from a header with one synonym per field, removing one synonym
\* gives a header that fails with exactly that field reported.
C7_MissingFieldsReported ==
    dpc # "start" =>
       /\ (dpc = "stopped") <=> (Unassigned # <<>>)
       /\ dpc = "stopped" => errors = Unassigned /\ df = None
       /\ dpc # "stopped" => errors = <<>> /\ df # None
       /\ OneSynonymEach(raw.cols) =>
             /\ dpc # "stopped"
             /\ \A i \in 1..Len(raw.cols) :
                   Decider(Strip(raw.cols[i])) # NoField =>
                      MissingCols(Without(raw.cols, i)) = <<Decider(Strip(raw.cols[i]))>>

(***************************************************************************)
(* Properties of the filters and of calculate_kpis.                        *)
(***************************************************************************)
\* the filter predicate on one row
Selected(r, s) ==
    /\ r.Rating \in s.ratings
    /\ s.lo.num * r.Price.den <= r.Price.num * s.lo.den
    /\ r.Price.num * s.hi.den <= s.hi.num * r.Price.den
    /\ r.Availability \in s.avail

\* C8: the filtered view holds exactly the rows of the frame with rating in
\* ratingSet, min <= price <= max (bounds included) and availability in
\* availabilitySet, in frame order; the frame is left as load_data returned
\* it; with the default selections the view is the whole frame.
C8_FilteredView ==
    dpc = "shown" =>
       /\ filtered.rows = SelectSeq(df.rows, LAMBDA r : Selected(r, sel))
       /\ df.rows = CleanFrame(raw, nullAsText)
       /\ sel = DefaultSelection(df.rows) => filtered = df

\* C8 witness: a selection other than the default kept a row priced exactly at
\* the upper bound and dropped another row
C8_Witness ==
    /\ dpc = "shown"
    /\ sel # DefaultSelection(df.rows)
    /\ Len(filtered.rows) > 0
    /\ Len(filtered.rows) < Len(df.rows)
    /\ \E i \in 1..Len(filtered.rows) : filtered.rows[i].Price = sel.hi

\* C9: availability_rate is in_stock / total_books * 100 when total_books > 0
\* and exactly 0 on an empty frame; total_books is the row count and in_stock
\* the number of rows whose Availability contains "in stock" in any case, so
\* 0 <= in_stock <= total_books and 0 <= availability_rate <= 100.
C9_AvailabilityRate ==
    dpc = "shown" =>
       LET total == Len(filtered.rows)
           inStock == Cardinality({i \in 1..total :
                          Contains(Lower(filtered.rows[i].Availability), <<"i", "n", " ", "s", "t", "o", "c", "k">>)})
           rate == kpis.availability_rate
       IN  /\ kpis.total_books = total
           /\ kpis.in_stock = inStock
           /\ total = 0 => rate = Num(0)
           /\ rate.den > 0
           /\ total > 0 => rate.num * total = inStock * 100 * rate.den
           /\ 0 <= kpis.in_stock /\ kpis.in_stock <= kpis.total_books
           /\ 0 <= rate.num /\ rate.num <= 100 * rate.den

\* C9 witness: the filters left no row of a non-empty frame and the rate is 0
C9_Witness ==
    /\ dpc = "shown"
    /\ df.rows # <<>>
    /\ filtered.rows = <<>>
    /\ kpis.total_books = 0
    /\ kpis.availability_rate = Num(0)

====
